---- MODULE Spec2Model ----
(***************************************************************************)
(* bbox-align: grouping of OCR word boxes into text lines.                 *)
(*                                                                         *)
(* Numbers.  Python floats are carried as exact extended rationals         *)
(* <<n, d>>: d > 0 is the rational n/d in lowest terms, <<1, 0>> is inf,   *)
(* <<-1, 0>> is -inf and <<0, 0>> is nan.  The arithmetic follows IEEE-754 *)
(* for the special values (inf - inf = nan, 0 * inf = nan, x / inf = 0,    *)
(* every comparison with nan is false) and Python for division by zero     *)
(* (ZeroDivisionError, for every numerator).  Rounding is not modelled.    *)
(* A distance is carried as its square: the code only compares distances   *)
(* with other non-negative numbers and squaring keeps order, inf and nan.  *)
(* A point is <<x, y>>; list positions are 1..n for Python's 0..n-1.       *)
(*                                                                         *)
(* Calls are read by the body of the function called: the pair that        *)
(* Line.point_of_intersection returns is the point is_point_in_polygon     *)
(* takes, a box carries the idx main.py:39 passes to its constructor, and  *)
(* is_inline inside bbox_is_in_line is the two-box function of main.py:85  *)
(* (is_inline_rect here), not the matrix builder of main.py:178 that       *)
(* carries the same name.                                                  *)
(***************************************************************************)
EXTENDS Integers, Sequences, FiniteSets, TLC

VARIABLES pc, vertices, endpoints, bboxes, pois, inline, lines,
          idx1, idx2, point, inside, op, args, ret, err

vars == <<pc, vertices, endpoints, bboxes, pois, inline, lines,
          idx1, idx2, point, inside, op, args, ret, err>>

----------------------------------------------------------------------------
(* Extended rational arithmetic (Python float / int semantics).             *)

Inf == <<1, 0>>
NInf == <<-1, 0>>
NaN == <<0, 0>>
None == <<"None">>
Reflected == <<"reflected">>

AbsInt(n) == IF n < 0 THEN -n ELSE n

RECURSIVE Gcd(_, _)
Gcd(a, b) == IF b = 0 THEN a ELSE Gcd(b, a % b)

Norm(n, d) ==
    LET g == Gcd(AbsInt(n), AbsInt(d))
    IN  IF d > 0 THEN <<n \div g, d \div g>> ELSE <<(-n) \div g, (-d) \div g>>

I(n) == <<n, 1>>
IsFin(a) == a[2] # 0
IsNaN(a) == a = NaN
IsZero(a) == a[2] # 0 /\ a[1] = 0
Sign(a) == IF a[1] > 0 THEN 1 ELSE IF a[1] < 0 THEN -1 ELSE 0

Neg(a) == <<-a[1], a[2]>>
Abs(a) == <<AbsInt(a[1]), a[2]>>

Add(a, b) ==
    IF IsNaN(a) \/ IsNaN(b) THEN NaN
    ELSE IF IsFin(a) /\ IsFin(b) THEN Norm(a[1] * b[2] + b[1] * a[2], a[2] * b[2])
    ELSE IF IsFin(a) THEN b
    ELSE IF IsFin(b) THEN a
    ELSE IF a = b THEN a ELSE NaN

Sub(a, b) == Add(a, Neg(b))

Mul(a, b) ==
    IF IsNaN(a) \/ IsNaN(b) THEN NaN
    ELSE IF IsFin(a) /\ IsFin(b) THEN Norm(a[1] * b[1], a[2] * b[2])
    ELSE IF IsZero(a) \/ IsZero(b) THEN NaN
    ELSE <<Sign(a) * Sign(b), 0>>

(* a / b for b # 0; the callers model the ZeroDivisionError of b = 0. *)
Div(a, b) ==
    IF IsNaN(a) \/ IsNaN(b) THEN NaN
    ELSE IF IsFin(a) /\ IsFin(b) THEN Norm(a[1] * b[2], a[2] * b[1])
    ELSE IF IsFin(a) THEN I(0)
    ELSE IF IsFin(b) THEN <<Sign(a) * Sign(b), 0>>
    ELSE NaN

Lt(a, b) ==
    IF IsNaN(a) \/ IsNaN(b) THEN FALSE
    ELSE IF IsFin(a) /\ IsFin(b) THEN a[1] * b[2] < b[1] * a[2]
    ELSE IF IsFin(a) THEN b = Inf
    ELSE IF IsFin(b) THEN a = NInf
    ELSE a = NInf /\ b = Inf

Gt(a, b) == Lt(b, a)
Le(a, b) == ~IsNaN(a) /\ ~IsNaN(b) /\ ~Lt(b, a)
Eq(a, b) == ~IsNaN(a) /\ ~IsNaN(b) /\ a = b

----------------------------------------------------------------------------
(* geometry.py: Point                                                       *)

Point(x, y) == <<x, y>>

PAdd(p, q) == Point(Add(p[1], q[1]), Add(p[2], q[2]))
PSub(p, q) == Point(Sub(p[1], q[1]), Sub(p[2], q[2]))
PDiv(p, s) == Point(Div(p[1], s), Div(p[2], s))

is_above(p, q) == Gt(p[2], q[2])
is_below(p, q) == Lt(p[2], q[2])
is_left_of(p, q) == Lt(p[1], q[1])
is_right_of(p, q) == Gt(p[1], q[1])

slope_wrt(p, q) ==
    LET d == PSub(p, q) IN IF IsZero(d[1]) THEN Inf ELSE Div(d[2], d[1])

----------------------------------------------------------------------------
(* geometry.py: Line, held as [m, c] (slope and intercept)                  *)

Line(p, m) == [m |-> m, c |-> Sub(p[2], Mul(p[1], m))]

standard_form_coeffs(l) == <<l.m, I(-1), l.c>>

(* Point.distance_to_line, squared: (A x + B y + C)^2 / (A^2 + B^2).        *)
(* B = -1, so the divisor is at least 1 and never raises.                   *)
distance_to_line(p, l) ==
    LET cf == standard_form_coeffs(l)
        num == Abs(Add(Add(Mul(cf[1], p[1]), Mul(cf[2], p[2])), cf[3]))
        den == Add(Mul(cf[1], cf[1]), Mul(cf[2], cf[2]))
    IN  Div(Mul(num, num), den)

distance_to_point(l, p) == distance_to_line(p, l)

find_x(l, y) ==
    IF IsZero(l.m) THEN Inf ELSE Div(Sub(y, l.c), l.m)

find_y(l, x) == Add(Mul(l.m, x), l.c)

point_of_intersection(l1, l2) ==
    LET c1 == standard_form_coeffs(l1)
        c2 == standard_form_coeffs(l2)
        denom == Sub(Mul(c1[1], c2[2]), Mul(c2[1], c1[2]))
    IN  IF IsZero(denom) THEN Point(Inf, Inf)
        ELSE Point(Div(Sub(Mul(c1[2], c2[3]), Mul(c2[2], c1[3])), denom),
                   Div(Sub(Mul(c1[3], c2[1]), Mul(c2[3], c1[1])), denom))

----------------------------------------------------------------------------
(* bounding_box.py: BoundingBox.  The constructor validates nothing: it     *)
(* goes straight to the midpoint, the slopes and the spans.  idx is the     *)
(* box's position in the input (main.py:39 passes it).                      *)

BoundingBox(p1, p2, p3, p4, idx) ==
    LET m1 == slope_wrt(p1, p2)
        m2 == slope_wrt(p3, p4)
        dp1 == PSub(p1, p4)
        dp2 == PSub(p2, p3)
        dp3 == PSub(p1, p2)
        dp4 == PSub(p3, p4)
    IN  [p1 |-> p1, p2 |-> p2, p3 |-> p3, p4 |-> p4, idx |-> idx,
         pm |-> PDiv(PAdd(p1, p3), I(2)),
         m |-> Div(Add(m1, m2), I(2)),
         h_avg |-> Div(Add(Abs(dp1[2]), Abs(dp2[2])), I(2)),
         w_avg |-> Div(Add(Abs(dp3[1]), Abs(dp4[1])), I(2))]

(* BoundingBox.__lt__ *)
bbox_lt(self, other) == is_left_of(self.pm, other.pm)

----------------------------------------------------------------------------
(* main.py                                                                  *)

(* tan(radians(3)) = 0.0524077792...; no slope difference of the boxes      *)
(* below lies between 0.0524 and that value, so 131/2500 decides the same.  *)
SLOPE_TOLERANCE == <<131, 2500>>

IntPoint(c) == Point(I(c[1]), I(c[2]))

to_bbox_object(bbox) ==
    BoundingBox(IntPoint(bbox[1]), IntPoint(bbox[2]), IntPoint(bbox[3]),
                IntPoint(bbox[4]), bbox[5])

(* Half of the average height, squared (distances are carried squared). *)
HalfHeightSq(b) == LET hh == Div(b.h_avg, I(2)) IN Mul(hh, hh)

bboxes_inline(bbox1, bbox2) ==
    LET l1 == Line(bbox1.pm, bbox1.m)
        d == distance_to_point(l1, bbox2.pm)
    IN  <<Le(d, HalfHeightSq(bbox2)), d>>

_parallel(bbox1, bbox2) ==
    LET r == bboxes_inline(bbox1, bbox2) IN Le(r[2], HalfHeightSq(bbox2))

(* parallel with the second direction left out. *)
parallel_OneWay(bbox1, bbox2) == _parallel(bbox1, bbox2)

parallel(bbox1, bbox2) ==
    _parallel(bbox1, bbox2) \/ _parallel(bbox2, bbox1)

(* is_inline(rect1, rect2), main.py:85 *)
is_inline_rect(rect1, rect2) ==
    /\ Le(Abs(Sub(rect1.m, rect2.m)), SLOPE_TOLERANCE)
    /\ parallel(rect1, rect2)

bbox_is_in_line(bbox, line) ==
    \E k \in 1..Len(line) : is_inline_rect(bbox, line[k])

(* group_step without the break: the box joins every line it is in line    *)
(* with.                                                                    *)
group_step_NoBreak(ls, bbox) ==
    IF \E k \in 1..Len(ls) : bbox_is_in_line(bbox, ls[k])
    THEN [k \in 1..Len(ls) |->
            IF bbox_is_in_line(bbox, ls[k]) THEN Append(ls[k], bbox) ELSE ls[k]]
    ELSE Append(ls, <<bbox>>)

(* One pass of the body of the loop over bboxes in group_in_lines: the box  *)
(* joins the first line it is in line with, else it opens a new line.       *)
group_step(ls, bbox) ==
    LET hit == {k \in 1..Len(ls) : bbox_is_in_line(bbox, ls[k])}
    IN  IF hit = {} THEN Append(ls, <<bbox>>)
        ELSE LET f == CHOOSE k \in hit : \A j \in hit : k <= j
             IN  [ls EXCEPT ![f] = Append(ls[f], bbox)]

RECURSIVE group_fold(_, _, _)
group_fold(ls, bbs, k) ==
    IF k > Len(bbs) THEN ls ELSE group_fold(group_step(ls, bbs[k]), bbs, k + 1)

group_in_lines(bbs) == group_fold(<<>>, bbs, 1)

(* One edge of the ray cast of is_point_in_polygon: the edge from (px, py)  *)
(* to (qx, qy) against the point (x, y).  `and` short-circuits: the         *)
(* division is evaluated only when the edge straddles the ray.              *)
pip_straddles(p, q, pt) == Gt(p[2], pt[2]) # Gt(q[2], pt[2])

pip_divides_by_zero(p, q, pt) ==
    pip_straddles(p, q, pt) /\ IsZero(Sub(q[2], p[2]))

pip_crosses(p, q, pt) ==
    IF pip_straddles(p, q, pt)
    THEN Lt(pt[1], Add(Div(Mul(Sub(q[1], p[1]), Sub(pt[2], p[2])),
                           Sub(q[2], p[2])), p[1]))
    ELSE FALSE

(* pip_edge setting the flag on a crossing instead of negating it. *)
pip_edge_NoToggle(ins, p, q, pt) == ins \/ pip_crosses(p, q, pt)

pip_edge(ins, p, q, pt) == IF pip_crosses(p, q, pt) THEN ~ins ELSE ins

Prev(polygon, i) == IF i = 1 THEN polygon[Len(polygon)] ELSE polygon[i - 1]

RECURSIVE pip_fold(_, _, _, _)
pip_fold(ins, pt, polygon, i) ==
    IF i > Len(polygon) THEN ins
    ELSE pip_fold(pip_edge(ins, Prev(polygon, i), polygon[i], pt), pt, polygon, i + 1)

is_point_in_polygon(pt, polygon) == pip_fold(FALSE, pt, polygon, 1)

(* poi_iter without the assignment to the mirrored entry. *)
poi_iter_OneWay(ps, bbs, ends, i1, i2) ==
    LET poi == point_of_intersection(Line(bbs[i1].pm, bbs[i1].m),
                                     Line(bbs[i2].pm, bbs[i2].m))
    IN  IF is_point_in_polygon(poi, ends)
        THEN [ps EXCEPT ![<<i1, i2>>] = poi]
        ELSE ps

(* Body of the inner loop of get_point_of_intersections for idx1 # idx2. *)
poi_iter(ps, bbs, ends, i1, i2) ==
    LET line1 == Line(bbs[i1].pm, bbs[i1].m)
        line2 == Line(bbs[i2].pm, bbs[i2].m)
        poi == point_of_intersection(line1, line2)
    IN  IF is_point_in_polygon(poi, ends)
        THEN [ps EXCEPT ![<<i1, i2>>] = poi, ![<<i2, i1>>] = poi]
        ELSE ps

(* is_inline(bboxes, pois), main.py:178, the entry of a pair that has no    *)
(* recorded intersection.                                                   *)
inline_entry(bbox1, bbox2) ==
    LET r == bboxes_inline(bbox1, bbox2) IN IF r[1] THEN r[2] ELSE Inf

----------------------------------------------------------------------------
(* Inputs.                                                                  *)

MaxBoxes == 3
GeomMax == 2
PolyMax == 2

Rect(x, y, w, h) == <<<<x, y>>, <<x + w, y>>, <<x + w, y + h>>, <<x, y + h>>>>

(* Word boxes, corners in the order the Point comparisons call clockwise   *)
(* (p1 left of p2, p2 above p3, p3 right of p4, p4 below p1; is_above is a  *)
(* greater y): three level boxes stepping by half a height, a fourth level  *)
(* box, a tall box, a skewed box (slope 1/2); then two boxes that are not   *)
(* clockwise: one of no width (p1 = p2, p3 = p4) and one given right edge   *)
(* first (p1 right of p2).                                                  *)
BoxPool ==
    { Rect(0, 2, 2, -2), Rect(4, 3, 2, -2), Rect(8, 4, 2, -2), Rect(0, 4, 2, -2),
      Rect(4, 8, 2, -8),
      <<<<2, 5>>, <<6, 7>>, <<6, 5>>, <<2, 3>>>>,
      Rect(3, 2, 0, -2), Rect(8, 8, -2, -2) }

WithIdx(bs) == [k \in 1..Len(bs) |-> <<bs[k][1], bs[k][2], bs[k][3], bs[k][4], k>>]

BoxSeqs == UNION {[1..n -> BoxPool] : n \in 0..MaxBoxes}

(* Boundaries: the page rectangle of main.py:291 scaled down, and a         *)
(* trapezium with a slanted left edge.                                      *)
Boundaries ==
    { <<<<0, 0>>, <<10, 0>>, <<10, 10>>, <<0, 10>>>>,
      <<<<1, 0>>, <<10, 0>>, <<10, 10>>, <<3, 10>>>> }

Points(ends) == [k \in 1..Len(ends) |-> IntPoint(ends[k])]

N == Len(bboxes)

Init ==
    /\ pc = "idle"
    /\ vertices = <<>>
    /\ endpoints = <<>>
    /\ bboxes = <<>>
    /\ pois = <<>>
    /\ inline = <<>>
    /\ lines = <<>>
    /\ idx1 = 0
    /\ idx2 = 0
    /\ point = None
    /\ inside = FALSE
    /\ op = ""
    /\ args = <<>>
    /\ ret = None
    /\ err = ""

----------------------------------------------------------------------------
(* process(vertices, words, endpoints)                                      *)

process ==
    /\ pc = "idle"
    /\ \E bs \in BoxSeqs, ends \in Boundaries :
          /\ vertices' = WithIdx(bs)
          /\ endpoints' = Points(ends)
    /\ pc' = "to_bbox"
    /\ UNCHANGED <<bboxes, pois, inline, lines, idx1, idx2, point, inside,
                   op, args, ret, err>>

(* bboxes = [to_bbox_object(vertex) for vertex in vertices], one box a step *)
process_bboxes ==
    /\ pc = "to_bbox"
    /\ Len(bboxes) < Len(vertices)
    /\ bboxes' = Append(bboxes, to_bbox_object(vertices[Len(bboxes) + 1]))
    /\ UNCHANGED <<pc, vertices, endpoints, pois, inline, lines, idx1, idx2,
                   point, inside, op, args, ret, err>>

get_point_of_intersections_enter ==
    /\ pc = "to_bbox"
    /\ Len(bboxes) = Len(vertices)
    /\ pois' = [ij \in (1..N) \X (1..N) |-> None]
    /\ idx1' = 1
    /\ idx2' = 1
    /\ pc' = "pois"
    /\ UNCHANGED <<vertices, endpoints, bboxes, inline, lines, point, inside,
                   op, args, ret, err>>

(* One pass of the inner loop: idx2 runs over range(idx1, n). *)
get_point_of_intersections ==
    /\ pc = "pois"
    /\ idx1 <= N
    /\ pois' = IF idx1 = idx2 THEN pois
               ELSE poi_iter(pois, bboxes, endpoints, idx1, idx2)
    /\ IF idx2 < N
       THEN idx1' = idx1 /\ idx2' = idx2 + 1
       ELSE idx1' = idx1 + 1 /\ idx2' = idx1 + 1
    /\ UNCHANGED <<pc, vertices, endpoints, bboxes, inline, lines, point,
                   inside, op, args, ret, err>>

is_inline_enter ==
    /\ pc = "pois"
    /\ idx1 > N
    /\ inline' = [ij \in (1..N) \X (1..N) |-> Inf]
    /\ idx1' = 1
    /\ idx2' = 1
    /\ pc' = "inline"
    /\ UNCHANGED <<vertices, endpoints, bboxes, pois, lines, point, inside,
                   op, args, ret, err>>

(* One pass of the inner loop of is_inline(bboxes, pois).  With a recorded  *)
(* intersection the entry is what bboxes_inline returns for the reflection  *)
(* of bbox1, and the reflection is built by get_vector_between_two_points   *)
(* and Line.reflect_point, which the sources do not hold: the entry is      *)
(* kept as the opaque value Reflected.                                      *)
is_inline ==
    /\ pc = "inline"
    /\ idx1 <= N
    /\ inline' =
          IF idx1 = idx2 THEN inline
          ELSE IF pois[<<idx1, idx2>>] = None
          THEN [inline EXCEPT ![<<idx1, idx2>>] =
                   inline_entry(bboxes[idx1], bboxes[idx2])]
          ELSE [inline EXCEPT ![<<idx1, idx2>>] = Reflected]
    /\ IF idx2 < N
       THEN idx1' = idx1 /\ idx2' = idx2 + 1
       ELSE idx1' = idx1 + 1 /\ idx2' = 1
    /\ UNCHANGED <<pc, vertices, endpoints, bboxes, pois, lines, point,
                   inside, op, args, ret, err>>

process_return ==
    /\ pc = "inline"
    /\ idx1 > N
    /\ pc' = "done"
    /\ UNCHANGED <<vertices, endpoints, bboxes, pois, inline, lines, idx1,
                   idx2, point, inside, op, args, ret, err>>

Next ==
    \/ process
    \/ process_bboxes
    \/ get_point_of_intersections_enter
    \/ get_point_of_intersections
    \/ is_inline_enter
    \/ is_inline
    \/ process_return

Spec == Init /\ [][Next]_vars

----------------------------------------------------------------------------
(* group_in_lines(bboxes), called on its own (process has the call          *)
(* commented out).  is_inline here is the two-box function of main.py:85.   *)

group_in_lines_call ==
    /\ pc = "idle"
    /\ \E bs \in BoxSeqs :
          /\ vertices' = WithIdx(bs)
          /\ bboxes' = [k \in 1..Len(bs) |-> to_bbox_object(WithIdx(bs)[k])]
    /\ lines' = <<>>
    /\ idx1' = 1
    /\ pc' = "group"
    /\ UNCHANGED <<endpoints, pois, inline, idx2, point, inside, op, args,
                   ret, err>>

group_in_lines_iter ==
    /\ pc = "group"
    /\ idx1 <= N
    /\ lines' = group_step(lines, bboxes[idx1])
    /\ idx1' = idx1 + 1
    /\ UNCHANGED <<pc, vertices, endpoints, bboxes, pois, inline, idx2, point,
                   inside, op, args, ret, err>>

group_in_lines_return ==
    /\ pc = "group"
    /\ idx1 > N
    /\ pc' = "grouped"
    /\ UNCHANGED <<vertices, endpoints, bboxes, pois, inline, lines, idx1,
                   idx2, point, inside, op, args, ret, err>>

NextGroup ==
    \/ group_in_lines_call
    \/ group_in_lines_iter
    \/ group_in_lines_return

SpecGroup == Init /\ [][NextGroup]_vars

----------------------------------------------------------------------------
(* is_point_in_polygon(point, polygon), one edge a step.                    *)

Grid(lo, hi) == {Point(I(x), I(y)) : x \in lo..hi, y \in lo..hi}

(* Axis-aligned rectangles with corners on 0..PolyMax, from any corner and  *)
(* in either direction.                                                     *)
Rotations(q) ==
    { <<q[1], q[2], q[3], q[4]>>, <<q[2], q[3], q[4], q[1]>>,
      <<q[3], q[4], q[1], q[2]>>, <<q[4], q[1], q[2], q[3]>>,
      <<q[4], q[3], q[2], q[1]>>, <<q[3], q[2], q[1], q[4]>>,
      <<q[2], q[1], q[4], q[3]>>, <<q[1], q[4], q[3], q[2]>> }

Rectangles ==
    UNION { Rotations(Points(Rect(x, y, w, h))) :
              x \in 0..PolyMax - 1, y \in 0..PolyMax - 1,
              w \in 1..PolyMax, h \in 1..PolyMax }

Polygons == Rectangles \cup {Points(b) : b \in Boundaries}

TestPoints ==
    Grid(-1, PolyMax + 2)
        \cup {Point(Div(I(1), I(2)), Div(I(3), I(2))), Point(Inf, Inf),
              Point(NaN, NaN), Point(I(1), NInf)}

is_point_in_polygon_call ==
    /\ pc = "idle"
    /\ \E pt \in TestPoints, poly \in Polygons :
          /\ point' = pt
          /\ endpoints' = poly
    /\ inside' = FALSE
    /\ idx1' = 1
    /\ pc' = "pip"
    /\ UNCHANGED <<vertices, bboxes, pois, inline, lines, idx2, op, args,
                   ret, err>>

is_point_in_polygon_iter ==
    /\ pc = "pip"
    /\ idx1 <= Len(endpoints)
    /\ IF pip_divides_by_zero(Prev(endpoints, idx1), endpoints[idx1], point)
       THEN /\ err' = "ZeroDivisionError"
            /\ pc' = "raised"
            /\ UNCHANGED <<inside, idx1>>
       ELSE /\ inside' = pip_edge(inside, Prev(endpoints, idx1),
                                  endpoints[idx1], point)
            /\ idx1' = idx1 + 1
            /\ UNCHANGED <<pc, err>>
    /\ UNCHANGED <<vertices, endpoints, bboxes, pois, inline, lines, idx2,
                   point, op, args, ret>>

is_point_in_polygon_return ==
    /\ pc = "pip"
    /\ idx1 > Len(endpoints)
    /\ ret' = inside
    /\ pc' = "returned"
    /\ UNCHANGED <<vertices, endpoints, bboxes, pois, inline, lines, idx1,
                   idx2, point, inside, op, args, err>>

NextPoly ==
    \/ is_point_in_polygon_call
    \/ is_point_in_polygon_iter
    \/ is_point_in_polygon_return

SpecPoly == Init /\ [][NextPoly]_vars

----------------------------------------------------------------------------
(* Calls of the geometry primitives.  A slope is a number a box can have    *)
(* as its orientation: inf is the orientation of a box of no width.         *)

Slopes == {I(0), Div(I(1), I(2)), I(-1), I(2), Inf}

GeomLines == {Line(p, m) : p \in Grid(0, GeomMax), m \in Slopes}

slope_wrt_call ==
    /\ pc = "idle"
    /\ \E p \in Grid(0, GeomMax), q \in Grid(0, GeomMax) :
          /\ args' = <<p, q>>
          /\ ret' = slope_wrt(p, q)
    /\ op' = "slope_wrt"
    /\ pc' = "returned"
    /\ UNCHANGED <<vertices, endpoints, bboxes, pois, inline, lines, idx1,
                   idx2, point, inside, err>>

find_x_call ==
    /\ pc = "idle"
    /\ \E l \in GeomLines, y \in 0..GeomMax :
          /\ args' = <<l, I(y)>>
          /\ ret' = find_x(l, I(y))
    /\ op' = "find_x"
    /\ pc' = "returned"
    /\ UNCHANGED <<vertices, endpoints, bboxes, pois, inline, lines, idx1,
                   idx2, point, inside, err>>

point_of_intersection_call ==
    /\ pc = "idle"
    /\ \E l1 \in GeomLines, l2 \in GeomLines :
          /\ args' = <<l1, l2>>
          /\ ret' = point_of_intersection(l1, l2)
    /\ op' = "point_of_intersection"
    /\ pc' = "returned"
    /\ UNCHANGED <<vertices, endpoints, bboxes, pois, inline, lines, idx1,
                   idx2, point, inside, err>>

NextGeom ==
    \/ slope_wrt_call
    \/ find_x_call
    \/ point_of_intersection_call

SpecGeom == Init /\ [][NextGeom]_vars

----------------------------------------------------------------------------
(* Properties.                                                              *)

LineIdx(line) == {line[k].idx : k \in 1..Len(line)}

Places(ls, i) ==
    {lk \in {<<l, k>> : l \in 1..Len(ls), k \in 1..N} :
        lk[2] <= Len(ls[lk[1]]) /\ ls[lk[1]][lk[2]].idx = i}

Partition(ls) == {LineIdx(ls[l]) : l \in 1..Len(ls)}

Bijections(n) == {f \in [1..n -> 1..n] : \A i, j \in 1..n : f[i] = f[j] => i = j}

----------------------------------------------------------------------------
(* Overlap of two boxes as the specification gives it (section 4.2 and the  *)
(* design notes): the area common to the axis-aligned extents of the two    *)
(* boxes, as a percentage of the area of the smaller extent; 0 when that    *)
(* extent has no area.                                                      *)

OVERLAP_THRESHOLD_PERCENT == 50

Corners(b) == {b.p1, b.p2, b.p3, b.p4}
MinOf(S) == CHOOSE a \in S : \A c \in S : Le(a, c)
MaxOf(S) == CHOOSE a \in S : \A c \in S : Le(c, a)
XMin(b) == MinOf({p[1] : p \in Corners(b)})
XMax(b) == MaxOf({p[1] : p \in Corners(b)})
YMin(b) == MinOf({p[2] : p \in Corners(b)})
YMax(b) == MaxOf({p[2] : p \in Corners(b)})
Span(lo, hi) == IF Lt(lo, hi) THEN Sub(hi, lo) ELSE I(0)
Area(b) == Mul(Span(XMin(b), XMax(b)), Span(YMin(b), YMax(b)))

overlap_percentage(a, b) ==
    LET common == Mul(Span(MaxOf({XMin(a), XMin(b)}), MinOf({XMax(a), XMax(b)})),
                      Span(MaxOf({YMin(a), YMin(b)}), MinOf({YMax(a), YMax(b)})))
        smaller == MinOf({Area(a), Area(b)})
    IN  IF IsZero(smaller) THEN I(0) ELSE Div(Mul(I(100), common), smaller)

----------------------------------------------------------------------------
RECURSIVE SumY(_, _)
SumY(line, k) == IF k = 0 THEN I(0) ELSE Add(SumY(line, k - 1), line[k].pm[2])

MeanY(line) == Div(SumY(line, Len(line)), I(Len(line)))

----------------------------------------------------------------------------
----------------------------------------------------------------------------
Clockwise(v) ==
    /\ is_left_of(IntPoint(v[1]), IntPoint(v[2]))
    /\ is_above(IntPoint(v[2]), IntPoint(v[3]))
    /\ is_right_of(IntPoint(v[3]), IntPoint(v[4]))
    /\ is_below(IntPoint(v[4]), IntPoint(v[1]))

----------------------------------------------------------------------------
Known(i, j) == inline[<<i, j>>] # Reflected

Recorded(i, j) == inline[<<i, j>>] # Inf

----------------------------------------------------------------------------
OrientationLine(i) == Line(bboxes[i].pm, bboxes[i].m)

POI(i, j) == point_of_intersection(OrientationLine(i), OrientationLine(j))

----------------------------------------------------------------------------
(* C6: degenerate geometry raises nothing and yields the infinite           *)
(* sentinel: slope_wrt of two points of equal x returns inf, find_x on a    *)
(* line of slope 0 returns inf, and point_of_intersection of two lines of   *)
(* equal slope returns (inf, inf).                                          *)
C6_InfiniteSentinel ==
    /\ err = ""
    /\ pc = "returned" /\ op = "slope_wrt" /\ args[1][1] = args[2][1] => ret = Inf
    /\ pc = "returned" /\ op = "find_x" /\ IsZero(args[1].m) => ret = Inf
    /\ pc = "returned" /\ op = "point_of_intersection" /\ Eq(args[1].m, args[2].m)
          => ret = Point(Inf, Inf)

----------------------------------------------------------------------------
(* The edges that a horizontal ray from pt towards +x crosses: the edge is  *)
(* not level, pt.y is in the half-open span of the edge's y, and the edge   *)
(* is to the right of pt at that height.                                    *)
XAt(p, q, y) ==
    Add(p[1], Div(Mul(Sub(q[1], p[1]), Sub(y, p[2])), Sub(q[2], p[2])))

RayCrosses(p, q, pt) ==
    LET lo == IF Lt(p[2], q[2]) THEN p[2] ELSE q[2]
        hi == IF Lt(p[2], q[2]) THEN q[2] ELSE p[2]
    IN  /\ p[2] # q[2]
        /\ Le(lo, pt[2]) /\ Lt(pt[2], hi)
        /\ Lt(pt[1], XAt(p, q, pt[2]))

Crossings(pt, poly) ==
    Cardinality({i \in 1..Len(poly) : RayCrosses(Prev(poly, i), poly[i], pt)})

IsRectangle(poly) == poly \in Rectangles

StrictlyInside(pt, poly) ==
    LET xs == {poly[k][1] : k \in 1..Len(poly)}
        ys == {poly[k][2] : k \in 1..Len(poly)}
    IN  /\ Lt(MinOf(xs), pt[1]) /\ Lt(pt[1], MaxOf(xs))
        /\ Lt(MinOf(ys), pt[2]) /\ Lt(pt[2], MaxOf(ys))

OnBoundary(pt, poly) ==
    LET xs == {poly[k][1] : k \in 1..Len(poly)}
        ys == {poly[k][2] : k \in 1..Len(poly)}
    IN  \/ pt[1] \in xs /\ Le(MinOf(ys), pt[2]) /\ Le(pt[2], MaxOf(ys))
        \/ pt[2] \in ys /\ Le(MinOf(xs), pt[1]) /\ Le(pt[1], MaxOf(xs))

(* C10: is_point_in_polygon returns true exactly when the ray crosses an    *)
(* odd number of edges; on an axis-aligned rectangle of four points, for a  *)
(* point off its boundary, exactly when the point is strictly inside; and   *)
(* it never divides by zero.                                                *)
C10_RayCasting ==
    /\ pc # "raised"
    /\ err = ""
    /\ pc = "returned" =>
          /\ ret = (Crossings(point, endpoints) % 2 = 1)
          /\ IsRectangle(endpoints) /\ ~OnBoundary(point, endpoints)
                => (ret <=> StrictlyInside(point, endpoints))

(* A point left of a rectangle at the height of a corner (two edges end on  *)
(* the ray, one of them level), found outside.                              *)
C10_Witness ==
    /\ pc = "returned"
    /\ IsRectangle(endpoints)
    /\ ~OnBoundary(point, endpoints)
    /\ \E k \in 1..Len(endpoints) :
          /\ endpoints[k][2] = point[2]
          /\ Lt(point[1], endpoints[k][1])
    /\ Crossings(point, endpoints) = 2
    /\ ret = FALSE

====
